---- MODULE Spec2Model ----
(***************************************************************************)
(* State-machine model of the answer-key extraction of open-mcr:           *)
(*   src/src/extractor.py  extract_answer_key_from_image (the per-sheet    *)
(*                         pipeline, one action per call it makes)         *)
(*   src/src/main_gui.py   the driver script (one action per statement     *)
(*                         group)                                          *)
(* The library modules the pipeline calls (image_utils, corner_finding,    *)
(* grid_reading, data_exporting) are not part of the sources at hand; what *)
(* they compute is modelled from the design document, and every call may   *)
(* raise.                                                                  *)
(***************************************************************************)
EXTENDS Integers, Sequences, FiniteSets, TLC

VARIABLES
    caller,               \* who invokes the pipeline: "test" or "main_gui"
    runs,                 \* pipeline invocations started so far
    prev,                 \* summary of the previous finished invocation
    \* ---- arguments of extract_answer_key_from_image
    image,                \* content of the sheet at image_path
    form_variant,
    multi_answers_as_f,
    empty_answers_as_g,
    debug_mode_on,
    \* ---- its position and locals
    pc,
    debug_path,
    corners,
    grid,
    field_fill_percents,
    answer_fill_percents,
    threshold,
    answers,
    form_code,
    keys_results,
    result,               \* the returned value (None or the path)
    \* ---- history of the invocation
    error,                \* kind of the exception that ended it
    done,                 \* the steps that completed, in order
    saved,                \* the record this invocation persisted
    calib,                \* the thresholds computed and used, see NoCalib
    \* ---- the file system below output_folder
    output_folder,
    \* ---- main_gui.py
    gpc,
    user_input,
    selected_keys_file,   \* history: the keys file the user selected
    window,               \* calls made on the extraction window, in order
    win_cancelled,
    extracted_key_path,
    image_paths,
    processed,            \* arguments of the process_input call
    \* ---- extract_answer_key_from_image_gui
    fpc,
    progress_tracker,     \* whether a progress tracker was passed
    tracker               \* calls made on the progress tracker, in order

args == <<image, form_variant, multi_answers_as_f, empty_answers_as_g,
          debug_mode_on>>
locals == <<debug_path, corners, grid, field_fill_percents,
            answer_fill_percents, threshold, answers, form_code,
            keys_results>>
history == <<error, done, saved, calib>>
gui == <<gpc, user_input, selected_keys_file, window, win_cancelled,
         extracted_key_path,
         image_paths, processed>>
wrapper == <<fpc, progress_tracker, tracker>>
vars == <<caller, runs, prev, args, pc, locals, result, history,
          output_folder, gui, wrapper>>

None == "None"
\* no record: a saved record holds at least one row
NoRecord == <<>>

(***************************************************************************)
(* Bounds of the model.                                                    *)
(***************************************************************************)
\* form_variant.num_questions (75 or 150 in the shipped variants)
NumQuestions == 2
\* pipeline invocations a test makes on one image
MaxRuns == 2
\* the fill percents a bubble can measure
FillLevels == {10, 50}
\* the choice letters of one bubble group, by index
Letters == <<"A", "B">>
NumChoices == Len(Letters)

(***************************************************************************)
(* Data.                                                                   *)
(***************************************************************************)
Groups == [1..NumChoices -> FillLevels]

BlankGroup == [c \in 1..NumChoices |-> 10]

\* grid_i.FormVariant: the question count and whether the TEST_FORM_CODE
\* field is configured (fields[TEST_FORM_CODE] is not None).
FormVariants == [num_questions : {NumQuestions}, has_form_code : BOOLEAN]

\* A sheet: whether its four corner marks can be found, and the ink of the
\* bubbles of every question and of the form-code column.
Sheets == [has_corners : BOOLEAN,
           questions : [1..NumQuestions -> Groups],
           code : Groups]

\* The sheets and variants drawn as inputs: a sheet without corner marks is
\* never measured, and neither is the form-code column of a variant that
\* does not configure it, so those bubbles are left blank.
Jobs == {j \in [sheet : Sheets, variant : FormVariants] :
            /\ (~j.sheet.has_corners =>
                    /\ j.sheet.questions = [q \in 1..NumQuestions |-> BlankGroup]
                    /\ j.sheet.code = BlankGroup)
            /\ (~j.variant.has_form_code => j.sheet.code = BlankGroup)}

CsvPath == "extracted_answer_key.csv"
ImageFile == "key.png"

RECURSIVE SeqMin(_), SeqMax(_), Flatten(_)
SeqMin(s) == IF Len(s) = 1 THEN s[1]
             ELSE LET m == SeqMin(Tail(s)) IN IF s[1] < m THEN s[1] ELSE m
SeqMax(s) == IF Len(s) = 1 THEN s[1]
             ELSE LET m == SeqMax(Tail(s)) IN IF s[1] > m THEN s[1] ELSE m
Flatten(ss) == IF ss = <<>> THEN <<>> ELSE Head(ss) \o Flatten(Tail(ss))

(***************************************************************************)
(* grid_reading.calculate_bubble_fill_threshold, from the design document  *)
(* (section 4.4): one cut point for the pooled population of the sheet,    *)
(* between the low and the high cluster, kept within a floor and a         *)
(* ceiling; a population without two clusters gets the default.            *)
(***************************************************************************)
THRESHOLD_FLOOR == 20
THRESHOLD_CEILING == 80
THRESHOLD_DEFAULT == 50
MIN_SEPARATION == 20

Clamp(x, lo, hi) == IF x < lo THEN lo ELSE IF x > hi THEN hi ELSE x

calculate_bubble_fill_threshold(field_fills, answer_fills) ==
    LET pool == Flatten(field_fills) \o Flatten(answer_fills)
        lo == SeqMin(pool)
        hi == SeqMax(pool)
    IN  IF hi - lo < MIN_SEPARATION THEN THRESHOLD_DEFAULT
        ELSE Clamp((lo + hi) \div 2, THRESHOLD_FLOOR, THRESHOLD_CEILING)

(***************************************************************************)
(* grid_reading.read_answer_as_string and read_field_as_string, from the   *)
(* design document (section 4.5).                                          *)
(***************************************************************************)
MULTI_ANSWER_SENTINEL == "F"
EMPTY_ANSWER_PLACEHOLDER == "G"

RECURSIVE marked_letters(_, _, _)
\* the letters of the choices from index i on whose fill meets the threshold
marked_letters(fill_percents, thr, i) ==
    IF i > Len(fill_percents) THEN ""
    ELSE (IF fill_percents[i] >= thr THEN Letters[i] ELSE "")
             \o marked_letters(fill_percents, thr, i + 1)

read_answer_as_string(multi_as_f, thr, fill_percents) ==
    LET s == marked_letters(fill_percents, thr, 1)
    IN  IF multi_as_f /\ Len(s) > 1 THEN MULTI_ANSWER_SENTINEL ELSE s

RECURSIVE read_field_as_string(_, _)
read_field_as_string(thr, groups) ==
    IF groups = <<>> THEN ""
    ELSE marked_letters(Head(groups), thr, 1)
             \o read_field_as_string(thr, Tail(groups))

(***************************************************************************)
(* data_exporting.OutputSheet, from the design document: a table of rows,  *)
(* one per sheet, whose empty answers clean_up replaces, and which save    *)
(* writes to one file below the output folder.                             *)
(***************************************************************************)
OutputSheet_add(sheet, field_data, answer_list) ==
    Append(sheet, [form_code |-> field_data.form_code,
                   image_file |-> field_data.image_file,
                   answers |-> answer_list])

OutputSheet_clean_up(sheet, replace_empty_with) ==
    [r \in DOMAIN sheet |->
        [sheet[r] EXCEPT !.answers =
            [q \in DOMAIN sheet[r].answers |->
                IF sheet[r].answers[q] = "" THEN replace_empty_with
                ELSE sheet[r].answers[q]]]]

OutputSheet_save(folder, sheet) == [folder EXCEPT !.csv = sheet]

(***************************************************************************)
(* extract_answer_key_from_image: the pieces of its control flow.          *)
(***************************************************************************)
Step(name, index) == [step |-> name, index |-> index]

\* the calls that are handed save_path (lines 52-91)
CaptureSteps == {"get_image", "prepare_scan_for_processing",
                 "find_corner_marks", "dilate", "Grid",
                 "calculate_bubble_fill_threshold"}

\* lines 39-48: the debug directory exists only in debug mode
DebugPathFor(debug) == IF debug THEN "debug_extractor/key" ELSE None

\* What a call can raise besides returning: any call an unexpected error,
\* and a call that writes debug artifacts an error of that write.
Faults(name) ==
    {"internal"} \cup
    (IF debug_path # None /\ name \in CaptureSteps THEN {"debug"} ELSE {})

\* a variant of NextStep: the image is dilated and the grid built before
\* the corner marks are looked for
NextStepCornersLate(name) ==
    CASE name = "make_debug_dir" -> "get_image"
      [] name = "get_image" -> "prepare_scan_for_processing"
      [] name = "prepare_scan_for_processing" -> "dilate"
      [] name = "dilate" -> "Grid"
      [] name = "Grid" -> "find_corner_marks"
      [] name = "find_corner_marks" -> "field_fill_percents"
      [] name = "field_fill_percents" -> "answer_fill_percents"
      [] name = "answer_fill_percents" -> "calculate_bubble_fill_threshold"
      [] name = "calculate_bubble_fill_threshold" -> "answers"
      [] name = "answers" -> "form_code"
      [] name = "form_code" -> "OutputSheet"
      [] name = "OutputSheet" -> "save"

\* lines 39-131: the statement that follows each call
NextStep(name) ==
    CASE name = "make_debug_dir" -> "get_image"
      [] name = "get_image" -> "prepare_scan_for_processing"
      [] name = "prepare_scan_for_processing" -> "find_corner_marks"
      [] name = "find_corner_marks" -> "dilate"
      [] name = "dilate" -> "Grid"
      [] name = "Grid" -> "field_fill_percents"
      [] name = "field_fill_percents" -> "answer_fill_percents"
      [] name = "answer_fill_percents" -> "calculate_bubble_fill_threshold"
      [] name = "calculate_bubble_fill_threshold" -> "answers"
      [] name = "answers" -> "form_code"
      [] name = "form_code" -> "OutputSheet"
      [] name = "OutputSheet" -> "save"

\* a variant of CornerErrorHandler: the error is raised again in debug mode
CornerErrorReraisedInDebug(debug) == IF debug THEN "raised" ELSE "returned"

\* lines 60-62: the handler of CornerFindingError returns None
CornerErrorHandler(debug) == "returned"

\* variants of ExceptionHandler: one raises again whatever the mode, one
\* never does
ExceptionAlwaysReraised(debug) == "raised"

ExceptionNeverReraised(debug) == "returned"

\* lines 133-137: the handler of every other exception
ExceptionHandler(debug) == IF debug THEN "raised" ELSE "returned"

\* a variant of NewOutputSheet: the rows already saved are kept
OutputSheetReused(folder) == folder.csv

\* line 109: a new, empty sheet for every invocation
NewOutputSheet(folder) == <<>>

\* a variant of QuestionsToRead: the last question is left out
QuestionsToReadButLast(variant) == variant.num_questions - 1

\* line 98: the questions decoded are range(form_variant.num_questions)
QuestionsToRead(variant) == variant.num_questions

\* a variant of ReadAnswer: the two policy flags are passed in each
\* other's place
ReadAnswerFlagsSwapped(i) ==
    read_answer_as_string(empty_answers_as_g, threshold,
                          answer_fill_percents[i])

\* lines 95-97: the decoding of question i
ReadAnswer(i) ==
    read_answer_as_string(multi_answers_as_f, threshold,
                          answer_fill_percents[i])

\* line 122: what replaces an empty answer
ReplaceEmptyWith(empty_as_g) ==
    IF empty_as_g THEN EMPTY_ANSWER_PLACEHOLDER ELSE ""

FreshLocals ==
    /\ debug_path' = None
    /\ corners' = None
    /\ grid' = None
    /\ field_fill_percents' = None
    /\ answer_fill_percents' = <<>>
    /\ threshold' = None
    /\ answers' = <<>>
    /\ form_code' = None
    /\ keys_results' = None

\* History of the thresholds: those this invocation computed, in order,
\* those it handed to a decode of an answer or of a field, and those that
\* invocations on earlier, different sheets computed.
NoCalib == [computed |-> <<>>, used |-> {}, earlier |-> {}]

\* Entry of the function with its arguments bound.
Enter(img, variant, multi, empty, debug) ==
    /\ image' = img
    /\ form_variant' = variant
    /\ multi_answers_as_f' = multi
    /\ empty_answers_as_g' = empty
    /\ debug_mode_on' = debug
    /\ FreshLocals
    /\ pc' = IF debug THEN "make_debug_dir" ELSE NextStep("make_debug_dir")
    /\ result' = None
    /\ error' = "none"
    /\ done' = <<>>
    /\ saved' = NoRecord
    /\ calib' = [computed |-> <<>>, used |-> {},
                 earlier |-> IF img = image THEN calib.earlier
                             ELSE calib.earlier \cup
                                  {calib.computed[n] :
                                       n \in 1..Len(calib.computed)}]
    /\ runs' = runs + 1

\* The invocation ends: by a return (pc "returned", result the value) or by
\* an exception leaving it (pc "raised").  Its frame is discarded.
Leave(how, value, kind) ==
    /\ pc' = how
    /\ result' = value
    /\ error' = kind
    /\ FreshLocals
    /\ UNCHANGED <<caller, runs, prev, args, done, saved, calib,
                   output_folder, gui, wrapper>>

\* A call inside the try block (lines 50-131) raises an exception of kind k.
Throw(k) == Leave(ExceptionHandler(debug_mode_on), None, k)

\* a variant of ComputeThreshold: the fills of the fields are left out
ComputeThresholdAnswersOnly ==
    calculate_bubble_fill_threshold(<<>>, answer_fill_percents)

\* lines 86-91: the threshold of the sheet, from the fills measured on it
ComputeThreshold ==
    calculate_bubble_fill_threshold(field_fill_percents, answer_fill_percents)

\* A call completes and control moves on.
Advance(name, index, next) ==
    /\ pc' = next
    /\ done' = Append(done, Step(name, index))
    /\ calib' =
          IF name = "calculate_bubble_fill_threshold"
          THEN [calib EXCEPT !.computed = Append(@, ComputeThreshold)]
          ELSE IF name = "answers" \/
                  (name = "form_code" /\ field_fill_percents # <<>>)
          THEN [calib EXCEPT !.used = @ \cup {threshold}]
          ELSE calib
    /\ UNCHANGED <<caller, runs, prev, args, result, error, saved, gui,
                   wrapper>>

\* A call that was handed save_path writes its artifacts there.
Capture(name) ==
    output_folder' =
        IF debug_path # None
        THEN [output_folder EXCEPT !.debug = @ \cup {"artifacts"}]
        ELSE output_folder

(***************************************************************************)
(* extract_answer_key_from_image, call by call.                            *)
(***************************************************************************)
\* lines 39-48, debug mode only: the two make_dir_if_not_exists calls, which
\* are outside the try block.
make_debug_dir ==
    /\ pc = "make_debug_dir"
    /\ \/ /\ Advance("make_debug_dir", 0, NextStep("make_debug_dir"))
          /\ debug_path' = DebugPathFor(debug_mode_on)
          /\ output_folder' = [output_folder EXCEPT !.debug = @ \cup {"dir"}]
          /\ UNCHANGED <<corners, grid, field_fill_percents,
                         answer_fill_percents, threshold, answers, form_code,
                         keys_results>>
       \/ Leave("raised", None, "debug")

\* line 52
get_image ==
    /\ pc = "get_image"
    /\ \/ /\ Advance("get_image", 0, NextStep("get_image"))
          /\ Capture("get_image")
          /\ UNCHANGED locals
       \/ \E k \in Faults("get_image") : Throw(k)

\* lines 53-54
prepare_scan_for_processing ==
    /\ pc = "prepare_scan_for_processing"
    /\ \/ /\ Advance("prepare_scan_for_processing", 0,
                    NextStep("prepare_scan_for_processing"))
          /\ Capture("prepare_scan_for_processing")
          /\ UNCHANGED locals
       \/ \E k \in Faults("prepare_scan_for_processing") : Throw(k)

\* lines 56-62: the corner marks are found, or CornerFindingError is raised
\* and handled on the spot
find_corner_marks ==
    /\ pc = "find_corner_marks"
    /\ \/ /\ image.has_corners
          /\ corners' = "corners"
          /\ Advance("find_corner_marks", 0, NextStep("find_corner_marks"))
          /\ Capture("find_corner_marks")
          /\ UNCHANGED <<debug_path, grid, field_fill_percents,
                         answer_fill_percents, threshold, answers, form_code,
                         keys_results>>
       \/ /\ ~image.has_corners
          /\ Leave(CornerErrorHandler(debug_mode_on), None, "corner")
       \/ \E k \in Faults("find_corner_marks") : Throw(k)

\* lines 65-66
dilate ==
    /\ pc = "dilate"
    /\ \/ /\ Advance("dilate", 0, NextStep("dilate"))
          /\ Capture("dilate")
          /\ UNCHANGED locals
       \/ \E k \in Faults("dilate") : Throw(k)

\* lines 69-73
Grid ==
    /\ pc = "Grid"
    /\ \/ /\ Advance("Grid", 0, NextStep("Grid"))
          /\ grid' = "grid"
          /\ Capture("Grid")
          /\ UNCHANGED <<debug_path, corners, field_fill_percents,
                         answer_fill_percents, threshold, answers, form_code,
                         keys_results>>
       \/ \E k \in Faults("Grid") : Throw(k)

\* lines 76-80: the fill percents of every configured field
measure_fields ==
    /\ pc = "field_fill_percents"
    /\ \/ /\ Advance("field_fill_percents", 0,
                    NextStep("field_fill_percents"))
          /\ field_fill_percents' =
                IF form_variant.has_form_code THEN <<image.code>> ELSE <<>>
          /\ UNCHANGED <<debug_path, corners, grid, answer_fill_percents,
                         threshold, answers, form_code, keys_results,
                         output_folder>>
       \/ /\ form_variant.has_form_code
          /\ \E k \in Faults("field_fill_percents") : Throw(k)

\* lines 81-84: the fill percents of the next question of the variant
measure_question ==
    /\ pc = "answer_fill_percents"
    /\ LET q == Len(answer_fill_percents) + 1 IN
       \/ /\ Advance("answer_fill_percents", q,
                     IF q = form_variant.num_questions
                     THEN NextStep("answer_fill_percents")
                     ELSE "answer_fill_percents")
          /\ answer_fill_percents' =
                Append(answer_fill_percents, image.questions[q])
          /\ UNCHANGED <<debug_path, corners, grid, field_fill_percents,
                         threshold, answers, form_code, keys_results,
                         output_folder>>
       \/ \E k \in Faults("answer_fill_percents") : Throw(k)

\* lines 86-91
calculate_threshold ==
    /\ pc = "calculate_bubble_fill_threshold"
    /\ \/ /\ Advance("calculate_bubble_fill_threshold", 0,
                    NextStep("calculate_bubble_fill_threshold"))
          /\ threshold' = ComputeThreshold
          /\ Capture("calculate_bubble_fill_threshold")
          /\ UNCHANGED <<debug_path, corners, grid, field_fill_percents,
                         answer_fill_percents, answers, form_code,
                         keys_results>>
       \/ \E k \in Faults("calculate_bubble_fill_threshold") : Throw(k)

\* lines 93-99: the answer of the next question
read_answer ==
    /\ pc = "answers"
    /\ LET i == Len(answers) + 1 IN
       \/ /\ Advance("answers", i,
                     IF i >= QuestionsToRead(form_variant)
                     THEN NextStep("answers") ELSE "answers")
          /\ answers' = Append(answers, ReadAnswer(i))
          /\ UNCHANGED <<debug_path, corners, grid, field_fill_percents,
                         answer_fill_percents, threshold, form_code,
                         keys_results, output_folder>>
       \/ \E k \in Faults("answers") : Throw(k)

\* lines 101-106: the form code, read only when the field is configured
read_form_code ==
    /\ pc = "form_code"
    /\ \/ /\ Advance("form_code", 0, NextStep("form_code"))
          /\ form_code' =
                IF field_fill_percents # <<>>
                THEN read_field_as_string(threshold, field_fill_percents)
                ELSE ""
          /\ UNCHANGED <<debug_path, corners, grid, field_fill_percents,
                         answer_fill_percents, threshold, answers,
                         keys_results, output_folder>>
       \/ /\ field_fill_percents # <<>>
          /\ \E k \in Faults("form_code") : Throw(k)

\* lines 108-122: the sheet is created, the row added, the sheet cleaned up
assemble_record ==
    /\ pc = "OutputSheet"
    /\ \/ /\ Advance("OutputSheet", 0, NextStep("OutputSheet"))
          /\ keys_results' =
                OutputSheet_clean_up(
                    OutputSheet_add(NewOutputSheet(output_folder),
                                    [form_code |-> form_code,
                                     image_file |-> ImageFile],
                                    answers),
                    ReplaceEmptyWith(empty_answers_as_g))
          /\ UNCHANGED <<debug_path, corners, grid, field_fill_percents,
                         answer_fill_percents, threshold, answers, form_code,
                         output_folder>>
       \/ \E k \in Faults("OutputSheet") : Throw(k)

\* lines 124-131: the record is written and its path returned
save ==
    /\ pc = "save"
    /\ \/ /\ pc' = "returned"
          /\ done' = Append(done, Step("save", 0))
          /\ output_folder' = OutputSheet_save(output_folder, keys_results)
          /\ saved' = keys_results
          /\ result' = CsvPath
          /\ error' = "none"
          /\ FreshLocals
          /\ UNCHANGED <<caller, runs, prev, args, calib, gui, wrapper>>
       \/ \E k \in Faults("save") : Throw(k)

Pipeline ==
    \/ make_debug_dir
    \/ get_image
    \/ prepare_scan_for_processing
    \/ find_corner_marks
    \/ dilate
    \/ Grid
    \/ measure_fields
    \/ measure_question
    \/ calculate_threshold
    \/ read_answer
    \/ read_form_code
    \/ assemble_record
    \/ save

(***************************************************************************)
(* A test of the pipeline: it runs the function on one image and one       *)
(* configuration, and then again, with debug mode as it chooses.           *)
(***************************************************************************)
NoRun == [signal |-> "norun", error |-> "none", record |-> NoRecord,
          debug |-> FALSE]

\* what the caller sees of a finished invocation, and what the run did
Summary == [signal |-> IF pc = "raised" THEN "raised" ELSE result,
            error |-> error, record |-> saved, debug |-> debug_mode_on]

Finished == pc \in {"returned", "raised"}

TestCall ==
    /\ caller = "test"
    /\ runs < MaxRuns
    /\ \/ /\ pc = "idle"
          /\ prev' = NoRun
          /\ \E j \in Jobs, multi \in BOOLEAN, empty \in BOOLEAN,
                debug \in BOOLEAN :
                Enter(j.sheet, j.variant, multi, empty, debug)
       \/ /\ Finished
          /\ prev' = Summary
          /\ \E debug \in BOOLEAN :
                Enter(image, form_variant, multi_answers_as_f,
                      empty_answers_as_g, debug)
    /\ UNCHANGED <<caller, output_folder, gui, wrapper>>

\* a group with its first choice filled in
MarkedGroup == [c \in 1..NumChoices |-> IF c = 1 THEN 50 ELSE 10]

\* the sheets a test reads after its first one: a blank form, and a form
\* with the first choice of every group filled in
FollowingSheets ==
    {[has_corners |-> TRUE,
      questions |-> [q \in 1..NumQuestions |-> g],
      code |-> g] : g \in {BlankGroup, MarkedGroup}}

\* The test moves on to another sheet of the same form, read with the same
\* policies into an output folder of its own.
TestNextSheet ==
    /\ caller = "test"
    /\ runs < MaxRuns
    /\ Finished
    /\ prev' = NoRun
    /\ output_folder' = [csv |-> NoRecord, debug |-> {}]
    /\ \E sheet \in FollowingSheets :
          /\ sheet # image
          /\ Enter(sheet, form_variant, multi_answers_as_f,
                   empty_answers_as_g, debug_mode_on)
    /\ UNCHANGED <<caller, gui, wrapper>>

NoSheet == [has_corners |-> FALSE,
            questions |-> [q \in 1..NumQuestions |-> BlankGroup],
            code |-> BlankGroup]

\* user_interface.MainWindow: what the user entered
UserInputs == [cancelled : BOOLEAN,
               extract_answer_key_mode : BOOLEAN,
               extract_answer_key_image : {None, ImageFile},
               input_folder : SUBSET {ImageFile, "sheet1.png"},
               keys_file : {None, "keys.csv"},
               multi_answers_as_f : BOOLEAN,
               empty_answers_as_g : BOOLEAN,
               debug_mode : BOOLEAN,
               form_variant : FormVariants]

NoUserInput == [cancelled |-> FALSE,
                extract_answer_key_mode |-> FALSE,
                extract_answer_key_image |-> None,
                input_folder |-> {},
                keys_file |-> None,
                multi_answers_as_f |-> FALSE,
                empty_answers_as_g |-> FALSE,
                debug_mode |-> FALSE,
                form_variant |-> [num_questions |-> NumQuestions,
                                  has_form_code |-> FALSE]]

InitPipeline ==
    /\ runs = 0
    /\ prev = NoRun
    /\ image = NoSheet
    /\ form_variant = [num_questions |-> NumQuestions, has_form_code |-> FALSE]
    /\ multi_answers_as_f = FALSE
    /\ empty_answers_as_g = FALSE
    /\ debug_mode_on = FALSE
    /\ pc = "idle"
    /\ debug_path = None
    /\ corners = None
    /\ grid = None
    /\ field_fill_percents = None
    /\ answer_fill_percents = <<>>
    /\ threshold = None
    /\ answers = <<>>
    /\ form_code = None
    /\ keys_results = None
    /\ result = None
    /\ error = "none"
    /\ done = <<>>
    /\ saved = NoRecord
    /\ calib = NoCalib
    /\ output_folder = [csv |-> NoRecord, debug |-> {}]

Init ==
    /\ caller = "test"
    /\ InitPipeline
    /\ gpc = "off"
    /\ user_input = NoUserInput
    /\ selected_keys_file = None
    /\ window = <<>>
    /\ win_cancelled = FALSE
    /\ extracted_key_path = None
    /\ image_paths = {}
    /\ processed = <<>>
    /\ fpc = "off"
    /\ progress_tracker = FALSE
    /\ tracker = <<>>

Next ==
    \/ TestCall
    \/ TestNextSheet
    \/ Pipeline

Spec == Init /\ [][Next]_vars

(***************************************************************************)
(* extract_answer_key_from_image_gui, the wrapper with progress tracking.  *)
(***************************************************************************)
\* lines 175-179: the status set for the value the call returned
TrackerStatus(value) ==
    IF value # None THEN "success" ELSE "failed"

\* lines 170-181: the call of line 170 is in no try block; an exception
\* that leaves it leaves the wrapper too, a return goes on to line 175
AfterInnerCall(how) ==
    IF how = "raised" THEN "raised" ELSE "status"

\* lines 167-173: the 'Extracting' status, then the call of the pipeline
FnCall ==
    /\ fpc = "start"
    /\ fpc' = "called"
    /\ prev' = NoRun
    /\ \E tracked \in BOOLEAN :
          /\ progress_tracker' = tracked
          /\ tracker' = IF tracked THEN <<"set_status:extracting">> ELSE <<>>
    /\ \E j \in Jobs, multi \in BOOLEAN, empty \in BOOLEAN, debug \in BOOLEAN :
          Enter(j.sheet, j.variant, multi, empty, debug)
    /\ UNCHANGED <<caller, output_folder, gui>>

\* line 170: the call has ended, by a return or by an exception
FnCallEnded ==
    /\ fpc = "called"
    /\ Finished
    /\ fpc' = AfterInnerCall(pc)
    /\ UNCHANGED <<caller, runs, prev, args, pc, locals, result, history,
                   output_folder, gui, progress_tracker, tracker>>

\* lines 175-181: the final status, and the return of the result
FnReturn ==
    /\ fpc = "status"
    /\ fpc' = "returned"
    /\ tracker' = IF progress_tracker
                  THEN Append(tracker, "set_status:" \o TrackerStatus(result))
                  ELSE tracker
    /\ UNCHANGED <<caller, runs, prev, args, pc, locals, result, history,
                   output_folder, gui, progress_tracker>>

InitFn ==
    /\ caller = "gui_function"
    /\ InitPipeline
    /\ gpc = "off"
    /\ user_input = NoUserInput
    /\ selected_keys_file = None
    /\ window = <<>>
    /\ win_cancelled = FALSE
    /\ extracted_key_path = None
    /\ image_paths = {}
    /\ processed = <<>>
    /\ fpc = "start"
    /\ progress_tracker = FALSE
    /\ tracker = <<>>

NextFn ==
    \/ FnCall
    \/ Pipeline
    \/ FnCallEnded
    \/ FnReturn

SpecFn == InitFn /\ [][NextFn]_vars

(***************************************************************************)
(* main_gui.py, the driver script.                                         *)
(***************************************************************************)
\* line 14 (and line 57): key-extraction mode with an image selected
ExtractionRequested(ui) ==
    ui.extract_answer_key_mode /\ ui.extract_answer_key_image # None

\* lines 10-14: where the script goes once the main window has closed
AfterMainWindow(ui) ==
    IF ui.cancelled THEN "exit"
    ELSE IF ExtractionRequested(ui) THEN "extract" ELSE "list_images"

\* a variant of AfterExtractionWindow: the cancellation is not looked at
ExtractionCancelIgnored(cancelled) == "list_images"

\* lines 48-49: where the script goes once the extraction window has closed
AfterExtractionWindow(cancelled) ==
    IF cancelled THEN "exit" ELSE "list_images"

\* a variant of ImagesToProcess: the answer-key image stays in the list
ImagesNotFiltered(ui) == ui.input_folder

\* lines 52-58: the images handed on, without the answer-key image
ImagesToProcess(ui) ==
    IF ExtractionRequested(ui)
    THEN ui.input_folder \ {ui.extract_answer_key_image}
    ELSE ui.input_folder

\* a variant of KeysFileAfterExtraction: the outcome of the call is
\* assigned whether or not it is a path
KeysFileAlwaysAssigned(ui, how, value) ==
    IF how = "returned" THEN value ELSE ui.keys_file

\* lines 36-43: the keys file once the extraction call has ended
KeysFileAfterExtraction(ui, how, value) ==
    IF how = "returned" /\ value # None THEN value ELSE ui.keys_file

\* a variant of ExtractionStatus: an exception leaves the status as it was
ExtractionStatusErrorNotShown(how, value) ==
    IF how = "raised" THEN "starting"
    ELSE IF value # None THEN "success" ELSE "failed"

\* lines 36-43: the status shown for the outcome of the extraction
ExtractionStatus(how, value) ==
    IF how = "raised" THEN "error"
    ELSE IF value # None THEN "success" ELSE "failed"

\* lines 9-14: the main window returns what the user entered
GuiMainWindow ==
    /\ gpc = "start"
    /\ \E ui \in UserInputs :
          /\ user_input' = ui
          /\ selected_keys_file' = ui.keys_file
          /\ gpc' = AfterMainWindow(ui)
    /\ UNCHANGED <<wrapper, caller, runs, prev, args, pc, locals, result,
                   history, output_folder, window, win_cancelled,
                   extracted_key_path,
                   image_paths, processed>>

\* lines 16-34: the extraction window opens and the pipeline is called on
\* the selected image, whatever that image shows
GuiExtract ==
    /\ gpc = "extract"
    /\ window' = window \o <<"set_status:starting", "start_progress">>
    /\ gpc' = "extracting"
    /\ prev' = NoRun
    /\ \E j \in Jobs :
          /\ j.variant = user_input.form_variant
          /\ Enter(j.sheet, j.variant, user_input.multi_answers_as_f,
                   user_input.empty_answers_as_g, user_input.debug_mode)
    /\ UNCHANGED <<wrapper, selected_keys_file,
                   caller, output_folder, user_input, win_cancelled,
                   extracted_key_path, image_paths, processed>>

\* lines 36-45: the outcome is shown, an extracted key becomes the keys
\* file, and the progress display stops
GuiExtractionDone ==
    /\ gpc = "extracting"
    /\ Finished
    /\ window' = window \o
            <<"set_status:" \o ExtractionStatus(pc, result), "stop_progress">>
    /\ extracted_key_path' = IF pc = "raised" THEN None ELSE result
    /\ user_input' =
            [user_input EXCEPT
                !.keys_file = KeysFileAfterExtraction(user_input, pc, result)]
    /\ gpc' = "wait_for_close"
    /\ UNCHANGED <<wrapper, selected_keys_file,
                   caller, runs, prev, args, pc, locals, result, history,
                   output_folder, win_cancelled, image_paths, processed>>

\* lines 46-49: the user closes the extraction window or cancels it
GuiWaitForClose ==
    /\ gpc = "wait_for_close"
    /\ window' = Append(window, "wait_for_close")
    /\ \E cancelled \in BOOLEAN :
          /\ win_cancelled' = cancelled
          /\ gpc' = AfterExtractionWindow(cancelled)
    /\ UNCHANGED <<wrapper, selected_keys_file,
                   caller, runs, prev, args, pc, locals, result, history,
                   output_folder, user_input, extracted_key_path,
                   image_paths, processed>>

\* lines 51-63: the images of the input folder, or the end of the script
GuiListImages ==
    /\ gpc = "list_images"
    /\ image_paths' = ImagesToProcess(user_input)
    /\ gpc' = IF ImagesToProcess(user_input) = {} THEN "exit"
              ELSE "process_input"
    /\ UNCHANGED <<wrapper, selected_keys_file,
                   caller, runs, prev, args, pc, locals, result, history,
                   output_folder, user_input, window, win_cancelled,
                   extracted_key_path, processed>>

\* lines 65-88
GuiProcessInput ==
    /\ gpc = "process_input"
    /\ processed' = Append(processed,
                           [image_paths |-> image_paths,
                            keys_file |-> user_input.keys_file,
                            debug_mode_on |-> user_input.debug_mode])
    /\ gpc' = "done"
    /\ UNCHANGED <<wrapper, selected_keys_file,
                   caller, runs, prev, args, pc, locals, result, history,
                   output_folder, user_input, window, win_cancelled,
                   extracted_key_path, image_paths>>

InitGui ==
    /\ caller = "main_gui"
    /\ InitPipeline
    /\ gpc = "start"
    /\ user_input = NoUserInput
    /\ selected_keys_file = None
    /\ window = <<>>
    /\ win_cancelled = FALSE
    /\ extracted_key_path = None
    /\ image_paths = {}
    /\ processed = <<>>
    /\ fpc = "off"
    /\ progress_tracker = FALSE
    /\ tracker = <<>>

NextGui ==
    \/ GuiMainWindow
    \/ GuiExtract
    \/ Pipeline
    \/ GuiExtractionDone
    \/ GuiWaitForClose
    \/ GuiListImages
    \/ GuiProcessInput

SpecGui == InitGui /\ [][NextGui]_vars

(***************************************************************************)
(* Properties.                                                             *)
(***************************************************************************)
IsPrefix(s, t) == Len(s) <= Len(t) /\ \A k \in 1..Len(s) : s[k] = t[k]

Last(s) == s[Len(s)]

\* the calls of one complete invocation, in the order of the source
Canonical(debug, variant) ==
    (IF debug THEN <<Step("make_debug_dir", 0)>> ELSE <<>>)
    \o <<Step("get_image", 0), Step("prepare_scan_for_processing", 0),
         Step("find_corner_marks", 0), Step("dilate", 0), Step("Grid", 0),
         Step("field_fill_percents", 0)>>
    \o [q \in 1..variant.num_questions |-> Step("answer_fill_percents", q)]
    \o <<Step("calculate_bubble_fill_threshold", 0)>>
    \o [i \in 1..variant.num_questions |-> Step("answers", i)]
    \o <<Step("form_code", 0), Step("OutputSheet", 0), Step("save", 0)>>

\* errors other than the corner-finding error
InternalKinds == {"internal", "debug"}

\* a record with one row that holds an answer for every question
CompleteRecord(rec) ==
    /\ Len(rec) = 1
    /\ DOMAIN rec[1].answers = 1..form_variant.num_questions

\* C1: with debug mode off no exception leaves the function: whatever step
\* failed, the invocation ends by returning None.
C1_NoErrorEscapesWithoutDebug ==
    ~debug_mode_on =>
        /\ pc # "raised"
        /\ (Finished /\ error # "none" => pc = "returned" /\ result = None)

\* a failure of the save, the last step, ended an invocation without debug
\* mode
C1_Witness ==
    /\ Finished
    /\ ~debug_mode_on
    /\ error = "internal"
    /\ done # <<>>
    /\ Last(done) = Step("OutputSheet", 0)
    /\ result = None

\* C2: with debug mode on a corner-finding error leaves the function as an
\* exception; it is returned as None only with debug mode off.
C2_CornerErrorPropagatesInDebug ==
    (Finished /\ error = "corner") =>
        IF debug_mode_on THEN pc = "raised"
        ELSE pc = "returned" /\ result = None

\* C3: an error other than the corner-finding error is raised again in
\* debug mode and turned into None otherwise; no record comes of it.
C3_InternalErrorEscalatesOnlyInDebug ==
    (Finished /\ error \in InternalKinds) =>
        /\ pc = IF debug_mode_on THEN "raised" ELSE "returned"
        /\ result = None
        /\ saved = NoRecord

\* an unexpected error after some steps, in debug mode
C3_Witness ==
    /\ pc = "raised"
    /\ debug_mode_on
    /\ error = "internal"
    /\ done # <<>>
    /\ Last(done) = Step("Grid", 0)

\* C4: a record is persisted, and its path returned, only by an invocation
\* that completed every step and decoded every question; an invocation that
\* failed persisted nothing, and every record in the folder is complete.
C4_NoPartialRecord ==
    /\ (saved # NoRecord =>
            /\ pc = "returned"
            /\ result = CsvPath
            /\ done = Canonical(debug_mode_on, form_variant)
            /\ CompleteRecord(saved)
            /\ output_folder.csv = saved)
    /\ (pc = "returned" /\ result = CsvPath => saved # NoRecord)
    /\ (output_folder.csv # NoRecord =>
            \A r \in DOMAIN output_folder.csv :
                DOMAIN output_folder.csv[r].answers =
                    1..form_variant.num_questions)

\* the decoding failed after the first question was decoded
C4_Witness ==
    /\ Finished
    /\ error = "internal"
    /\ done # <<>>
    /\ Last(done) = Step("answers", 1)
    /\ result = None
    /\ saved = NoRecord

\* the two invocations at hand, one failed for want of corner marks and the
\* other by an internal error
C5_BothFailureKinds ==
    /\ Finished
    /\ prev.signal # "norun"
    /\ \/ prev.error = "corner" /\ error \in InternalKinds
       \/ prev.error \in InternalKinds /\ error = "corner"

\* debug mode of the one of the two that failed by an internal error
C5_InternalRunDebug ==
    IF error \in InternalKinds THEN debug_mode_on ELSE prev.debug

\* C5 as stated: what the caller gets tells "no fiducials found" from
\* "internal error".
C5_SignalTellsFailureKind ==
    C5_BothFailureKinds => Summary.signal # prev.signal

\* C5 as amended: the two failures give the caller the same value, None,
\* unless the internal error occurred in debug mode, where it is raised.
C5_SignalTellsFailureKindOnlyInDebug ==
    C5_BothFailureKinds =>
        /\ (Summary.signal # prev.signal <=> C5_InternalRunDebug)
        /\ (~C5_InternalRunDebug =>
                Summary.signal = None /\ prev.signal = None)

\* both failures, without debug mode, returned None
C5_Witness ==
    /\ C5_BothFailureKinds
    /\ ~C5_InternalRunDebug
    /\ Summary.signal = None
    /\ prev.signal = None

\* C6: the steps completed so far are an initial part of the one order
\* corners, grid, fills of the fields and of every question, threshold,
\* answers, form code; the step in progress is the next of that order, and
\* after a failure none is.
C6_StepsInOrder ==
    LET order == Canonical(debug_mode_on, form_variant) IN
    /\ IsPrefix(done, order)
    /\ (pc \notin {"idle", "returned", "raised"} =>
            /\ Len(done) < Len(order)
            /\ pc = order[Len(done) + 1].step)
    /\ (Finished /\ error # "none" => Len(done) < Len(order))

\* a complete invocation in debug mode
C6_Witness ==
    /\ pc = "returned"
    /\ result = CsvPath
    /\ debug_mode_on
    /\ done = Canonical(debug_mode_on, form_variant)

\* C7: two invocations on the same image and policies, one with debug
\* capture and one without, neither ended by an error of the pipeline
\* proper, persist the same record or both none, also when the debug
\* directory or a debug artifact could not be written.
C7_DebugCaptureNoInfluence ==
    (/\ Finished
     /\ prev.signal # "norun"
     /\ prev.debug # debug_mode_on
     /\ prev.error # "internal"
     /\ error # "internal")
        => saved = prev.record

\* C8: a second invocation on the same image and configuration ends as the
\* first did and persists the same record, unless an unexpected error
\* struck one of them.
C8_Idempotent ==
    (/\ Finished
     /\ prev.signal # "norun"
     /\ prev.error \notin InternalKinds
     /\ error \notin InternalKinds)
        => /\ Summary.signal = prev.signal
           /\ error = prev.error
           /\ saved = prev.record
           /\ (saved # NoRecord => output_folder.csv = saved)

\* two complete invocations with the same configuration
C8_Witness ==
    /\ Finished
    /\ prev.signal = CsvPath
    /\ result = CsvPath
    /\ prev.debug = debug_mode_on
    /\ saved # NoRecord

\* C9: once the main window is cancelled the script ends without calling
\* the extraction or process_input; once the extraction window is
\* cancelled, which is after the extraction has ended, the script ends
\* without calling process_input.
C9_CancelStopsSubmission ==
    /\ (user_input.cancelled =>
            gpc = "exit" /\ runs = 0 /\ processed = <<>>)
    /\ (win_cancelled =>
            gpc = "exit" /\ Finished /\ processed = <<>>)

\* the extraction window was cancelled with sheets left to process
C9_Witness ==
    /\ win_cancelled
    /\ gpc = "exit"
    /\ runs = 1
    /\ ImagesToProcess(user_input) # {}

\* the choices of a group whose fill meets the threshold
Marked(fill_percents, thr) ==
    {c \in DOMAIN fill_percents : fill_percents[c] >= thr}

RECURSIVE JoinAscending(_)
\* the letters of a set of choices, lowest index first
JoinAscending(cs) ==
    IF cs = {} THEN ""
    ELSE LET m == CHOOSE c \in cs : \A d \in cs : c <= d
         IN  Letters[m] \o JoinAscending(cs \ {m})

\* C10: every decoded answer follows the policy for the bubbles of its
\* question on the sheet: nothing marked, the empty answer; one marked, its
\* letter; several marked, the sentinel if multi_answers_as_f and else the
\* marked letters by increasing index.
C10_DecodePolicy ==
    \A i \in 1..Len(answers) :
        LET m == Marked(image.questions[i], threshold) IN
        /\ (m = {} => answers[i] = "")
        /\ (Cardinality(m) = 1 => answers[i] = Letters[CHOOSE c \in m : TRUE])
        /\ (Cardinality(m) > 1 =>
                answers[i] = IF multi_answers_as_f THEN MULTI_ANSWER_SENTINEL
                             ELSE JoinAscending(m))

\* a sheet decoded with the collapse policy: one question with several
\* marks, one with a single mark
C10_Witness ==
    /\ multi_answers_as_f
    /\ Len(answers) = form_variant.num_questions
    /\ \E i, j \in 1..Len(answers) :
          /\ answers[i] = MULTI_ANSWER_SENTINEL
          /\ answers[j] = Letters[2]

\* the threshold that belongs to a sheet: the one of the pooled fills of its
\* configured fields and of all its questions
SheetThreshold(sheet, variant) ==
    calculate_bubble_fill_threshold(
        IF variant.has_form_code THEN <<sheet.code>> ELSE <<>>,
        [q \in 1..variant.num_questions |-> sheet.questions[q]])

\* C11: an invocation computes at most one threshold, and exactly one when
\* it reads the sheet to the end; that threshold is the one of the pooled
\* fills of every configured field and every question of the sheet at hand;
\* every decode of an answer or of a field is handed it and decodes with
\* it, whatever thresholds earlier sheets had.
C11_OneThresholdPerSheet ==
    LET own == SheetThreshold(image, form_variant) IN
    /\ Len(calib.computed) <= 1
    /\ \A n \in 1..Len(calib.computed) : calib.computed[n] = own
    /\ calib.used \subseteq
           {calib.computed[n] : n \in 1..Len(calib.computed)}
    /\ \A i \in 1..Len(answers) :
           answers[i] = read_answer_as_string(multi_answers_as_f, own,
                                              image.questions[i])
    /\ (pc \in {"OutputSheet", "save"} /\ form_variant.has_form_code =>
           form_code = read_field_as_string(own, <<image.code>>))
    /\ (pc = "returned" /\ result # None =>
           Len(calib.computed) = 1 /\ calib.used = {own})

\* a second sheet read to the end, answers and form code decoded, with a
\* threshold that differs from the one of the sheet read before it
C11_Witness ==
    /\ runs = 2
    /\ pc = "returned"
    /\ result = CsvPath
    /\ form_variant.has_form_code
    /\ calib.earlier # {}
    /\ calib.used # {}
    /\ calib.used \cap calib.earlier = {}

\* C12: the keys file handed to process_input after an extraction is the
\* path the extraction returned when it returned one, and the keys file the
\* user selected when it returned None or raised; and once the extraction
\* has ended, the script leaves without process_input only if the user
\* cancelled the extraction window or no image is left to process.
C12_KeysFileFollowsExtraction ==
    runs = 1 =>
        /\ (processed # <<>> =>
                processed[1].keys_file =
                    IF pc = "returned" /\ result # None
                    THEN result ELSE selected_keys_file)
        /\ (gpc = "exit" =>
                win_cancelled \/ ImagesToProcess(user_input) = {})

\* the extraction returned None although the user had selected a keys file,
\* and the batch was submitted
C12_Witness ==
    /\ runs = 1
    /\ pc = "returned"
    /\ result = None
    /\ selected_keys_file # None
    /\ processed # <<>>

\* C13: the pipeline is called at most once, and never once process_input
\* has been called; process_input is called with at least one image path,
\* and, when an answer-key image was selected in key-extraction mode, with
\* the extraction over and that image not among the paths.
C13_ExtractionBeforeBatch ==
    /\ runs <= 1
    /\ Len(processed) <= 1
    /\ (processed # <<>> =>
            /\ processed[1].image_paths # {}
            /\ pc \in {"idle", "returned", "raised"}
            /\ (ExtractionRequested(user_input) =>
                    /\ runs = 1
                    /\ Finished
                    /\ user_input.extract_answer_key_image \notin
                           processed[1].image_paths))
    /\ (gpc = "process_input" => image_paths # {})

\* the answer-key image lay in the input folder among the sheets, the key
\* was extracted from it, and the batch was submitted
C13_Witness ==
    /\ ExtractionRequested(user_input)
    /\ user_input.extract_answer_key_image \in user_input.input_folder
    /\ runs = 1
    /\ processed # <<>>

\* what the user entered when the script reaches line 16: key-extraction
\* mode with an image selected, in either debug mode and for either form;
\* the input folder holds one other sheet, no keys file is selected and the
\* two answer policies are off
ExtractionInputs ==
    {ui \in UserInputs :
        /\ ~ui.cancelled
        /\ ExtractionRequested(ui)
        /\ ui.input_folder = {"sheet1.png"}
        /\ ui.keys_file = None
        /\ ~ui.multi_answers_as_f
        /\ ~ui.empty_answers_as_g}

\* main_gui.py at line 16, the main window closed
InitExtraction ==
    /\ caller = "main_gui"
    /\ InitPipeline
    /\ gpc = "extract"
    /\ user_input \in ExtractionInputs
    /\ selected_keys_file = None
    /\ window = <<>>
    /\ win_cancelled = FALSE
    /\ extracted_key_path = None
    /\ image_paths = {}
    /\ processed = <<>>
    /\ fpc = "off"
    /\ progress_tracker = FALSE
    /\ tracker = <<>>

NextExtraction ==
    \/ GuiExtract
    \/ Pipeline
    \/ GuiExtractionDone
    \/ GuiWaitForClose
    \/ GuiListImages
    \/ GuiProcessInput

\* where the script and the pipeline stand; every step changes it
position == <<gpc, pc, done>>

\* The script from line 16 on, run to its end: a statement that is reached
\* executes, every call the pipeline makes returns or raises, and the user
\* closes the extraction window once wait_for_close shows it.
SpecExtraction ==
    InitExtraction /\ [][NextExtraction]_vars /\ WF_position(NextExtraction)

\* the call e was made on the extraction window
Called(e) == \E n \in DOMAIN window : window[n] = e

\* the status the script shows for the outcome of the extraction call
FinalStatus ==
    IF pc = "raised" THEN "set_status:error"
    ELSE IF result # None THEN "set_status:success"
    ELSE "set_status:failed"

\* C14: once start_progress has been called on the extraction window,
\* stop_progress and then wait_for_close are eventually called; the call
\* just before stop_progress sets the final status, which is the success
\* status for a returned path, the failure status for None and the error
\* status for an exception that left the extraction; wait_for_close comes
\* right after stop_progress.
C14_ProgressAlwaysStopped ==
    /\ [](\A n \in DOMAIN window :
            /\ (window[n] = "stop_progress" =>
                    /\ n = 4
                    /\ window[2] = "start_progress"
                    /\ window[3] = FinalStatus)
            /\ (window[n] = "wait_for_close" =>
                    n = 5 /\ window[4] = "stop_progress"))
    /\ (Called("start_progress") ~>
            (Called("stop_progress") /\ Called("wait_for_close")))

\* an internal error left the extraction in debug mode, and the window
\* went through stop_progress and wait_for_close all the same
C14_Witness ==
    /\ pc = "raised"
    /\ debug_mode_on
    /\ window = <<"set_status:starting", "start_progress",
                  "set_status:error", "stop_progress", "wait_for_close">>

\* C15: a call of extract_answer_key_from_image_gui with a progress tracker
\* sets the 'Extracting' status first, and once the call has ended, in
\* either mode, the tracker has been given exactly one more status: the
\* success status when the result is a path, the failure status otherwise.
C15_TrackerShowsOutcome ==
    progress_tracker =>
        /\ (fpc \in {"called", "status"} =>
                tracker = <<"set_status:extracting">>)
        /\ (fpc \in {"returned", "raised"} =>
                tracker = <<"set_status:extracting",
                            IF pc = "returned" /\ result # None
                            THEN "set_status:success"
                            ELSE "set_status:failed">>)

====
